---- MODULE Spec2Model ----
(***************************************************************************)
(* Two jet drivers of the runtime and the native functions behind them:    *)
(*   - face   (gen164/6/face.c): the type-annotation jet, [%face cog tip]  *)
(*   - lrsin  (jets/d/up_lrsin.c): a rotation of the loser tree behind the *)
(*     priority search queue.                                              *)
(* A noun is modelled as a tuple: an atom n is <<n>>, a cell [h t] is      *)
(* <<h, t>>.  The node built by u3qdu_llos is kept as the record of that   *)
(* constructor call, <<"llos", n, l, m, r>>.                               *)
(***************************************************************************)
EXTENDS Integers, Sequences, FiniteSets, TLC

VARIABLES pc, jet, via, cor, sam, ret, bail, kept, made, path

vars == <<pc, jet, via, cor, sam, ret, bail, kept, made, path>>

(* ------------------------------ bounds -------------------------------- *)

\* keys n_a, n_b range over the atoms 1..MaxKey (and one cell)
MaxKey == 2
\* the size field stored in the left child ranges over the atoms 0..MaxSize (and one cell)
MaxSize == 1

(* ------------------------------ nouns --------------------------------- *)

A(n) == <<n>>
C(h, t) == <<h, t>>
T3(a, b, c) == C(a, C(b, c))
T4(a, b, c, d) == C(a, C(b, C(c, d)))

\* "no noun": what a call that bailed hands back
None == <<>>

u3du(x) == Len(x) = 2
u3ud(x) == Len(x) = 1
u3h(x) == x[1]
u3t(x) == x[2]

c3_s4(a, b, c, d) == a + (b * 256) + (c * 65536) + (d * 16777216)
c3__void == c3_s4(118, 111, 105, 100)
c3__face == c3_s4(102, 97, 99, 101)
c3__fail == c3_s4(102, 97, 105, 108)
c3__exit == c3_s4(101, 120, 105, 116)
c3__llos == c3_s4(108, 108, 111, 115)
c3__rlos == c3_s4(114, 108, 111, 115)

\* axis addressing: axis 1 is the noun, 2n / 2n+1 the head / tail of axis n
RECURSIVE fetch(_, _)
fetch(axis, n) ==
  IF axis = 1 THEN n
  ELSE LET p == fetch(axis \div 2, n)
       IN  IF ~u3du(p) THEN None
           ELSE IF axis % 2 = 0 THEN u3h(p) ELSE u3t(p)

\* the sample of a core, and its two halves
u3x_sam == 6
u2_cv_sam_2 == 12
u2_cv_sam_3 == 13

\* u3r_mean / u2_cr_mean: yes iff every axis asked for resolves
u3r_mean(c, axes) == \A i \in 1..Len(axes) : fetch(axes[i], c) # None

\* u3r_qual: yes iff a is [p q r s]
u3r_qual(a) == u3du(a) /\ u3du(u3t(a)) /\ u3du(u3t(u3t(a)))

\* u3r_cell: yes iff a is a cell
u3r_cell(a) == u3du(a)

\* u3k / u2k: one more reference to the noun held in the C variable `name`
u3k(name, x) == [name |-> name, val |-> x]

\* u2nt: the triple [a b c], two fresh cells
u2nt(a, b, c) == T3(a, b, c)

\* u3qdu_llos: the node constructor; it takes over the four references it is given
u3qdu_llos(n, l, m, r) == <<"llos", n, l, m, r>>

\* u3m_bail / u2_cm_bail: leave with a mote and no noun
u3m_bail(mote) == [ret |-> None, bail |-> mote, kept |-> <<>>, made |-> <<>>]

(* ------------------------------- face --------------------------------- *)

j2_mby_face_noVoid(cog, tip) ==
  [ret  |-> u2nt(A(c3__face), cog, tip),
   bail |-> 0,
   kept |-> <<u3k("cog", cog), u3k("tip", tip)>>,
   made |-> <<C(cog, tip), u2nt(A(c3__face), cog, tip)>>]

j2_mby_face_swapped(cog, tip) ==
  IF tip = A(c3__void)
  THEN [ret |-> A(c3__void), bail |-> 0, kept |-> <<>>, made |-> <<>>]
  ELSE [ret  |-> u2nt(A(c3__face), tip, cog),
        bail |-> 0,
        kept |-> <<u3k("cog", cog), u3k("tip", tip)>>,
        made |-> <<C(tip, cog), u2nt(A(c3__face), tip, cog)>>]

j2_mby_face(cog, tip) ==
  IF tip = A(c3__void)
  THEN [ret |-> A(c3__void), bail |-> 0, kept |-> <<>>, made |-> <<>>]
  ELSE [ret  |-> u2nt(A(c3__face), cog, tip),
        bail |-> 0,
        kept |-> <<u3k("cog", cog), u3k("tip", tip)>>,
        made |-> <<C(cog, tip), u2nt(A(c3__face), cog, tip)>>]

(* ------------------------------- lrsin -------------------------------- *)

\* the seven nouns a successful call hands to the constructors, as u3k'd
Keep7(n_a, m_a, r_a, n_b, l_b, m_b, r_b, first) ==
  <<u3k(first, IF first = "n_b" THEN n_b ELSE n_a),
    u3k("l_b", l_b), u3k("m_b", m_b),
    u3k(IF first = "n_b" THEN "n_a" ELSE "n_b", IF first = "n_b" THEN n_a ELSE n_b),
    u3k("r_b", r_b), u3k("m_a", m_a), u3k("r_a", r_a)>>

lrsin_llos_swapSub(n_a, m_a, r_a, n_b, l_b, m_b, r_b) ==
  LET inner == u3qdu_llos(n_a, l_b, m_a, r_a)
      outer == u3qdu_llos(n_b, r_b, m_b, inner)
  IN  [ret |-> outer, bail |-> 0,
       kept |-> Keep7(n_a, m_a, r_a, n_b, l_b, m_b, r_b, "n_b"),
       made |-> <<inner, outer>>]

lrsin_llos_leftFirst(n_a, m_a, r_a, n_b, l_b, m_b, r_b) ==
  LET inner == u3qdu_llos(n_b, l_b, m_b, r_b)
      outer == u3qdu_llos(n_a, inner, m_a, r_a)
  IN  [ret |-> outer, bail |-> 0,
       kept |-> Keep7(n_a, m_a, r_a, n_b, l_b, m_b, r_b, "n_b"),
       made |-> <<inner, outer>>]

lrsin_llos_noKeep(n_a, m_a, r_a, n_b, l_b, m_b, r_b) ==
  LET inner == u3qdu_llos(n_a, r_b, m_a, r_a)
      outer == u3qdu_llos(n_b, l_b, m_b, inner)
  IN  [ret |-> outer, bail |-> 0,
       kept |-> <<u3k("n_b", n_b), u3k("l_b", l_b), u3k("m_b", m_b),
                  u3k("n_a", n_a), u3k("m_a", m_a), u3k("r_a", r_a)>>,
       made |-> <<inner, outer>>]

\* case c3__llos
lrsin_llos(n_a, m_a, r_a, n_b, l_b, m_b, r_b) ==
  LET inner == u3qdu_llos(n_a, r_b, m_a, r_a)
      outer == u3qdu_llos(n_b, l_b, m_b, inner)
  IN  [ret |-> outer, bail |-> 0,
       kept |-> <<u3k("n_b", n_b), u3k("l_b", l_b), u3k("m_b", m_b),
                  u3k("n_a", n_a), u3k("r_b", r_b), u3k("m_a", m_a), u3k("r_a", r_a)>>,
       made |-> <<inner, outer>>]

lrsin_rlos_dupKey(n_a, m_a, r_a, n_b, l_b, m_b, r_b) ==
  LET inner == u3qdu_llos(n_a, r_b, m_a, r_a)
      outer == u3qdu_llos(n_a, l_b, m_b, inner)
  IN  [ret |-> outer, bail |-> 0,
       kept |-> Keep7(n_a, m_a, r_a, n_b, l_b, m_b, r_b, "n_a"),
       made |-> <<inner, outer>>]

\* case c3__rlos
lrsin_rlos(n_a, m_a, r_a, n_b, l_b, m_b, r_b) ==
  LET inner == u3qdu_llos(n_b, r_b, m_a, r_a)
      outer == u3qdu_llos(n_a, l_b, m_b, inner)
  IN  [ret |-> outer, bail |-> 0,
       kept |-> <<u3k("n_a", n_a), u3k("l_b", l_b), u3k("m_b", m_b),
                  u3k("n_b", n_b), u3k("r_b", r_b), u3k("m_a", m_a), u3k("r_a", r_a)>>,
       made |-> <<inner, outer>>]

lrsin_switch_defaultLlos(hol, n_a, m_a, r_a, n_b, l_b, m_b, r_b) ==
  IF ~u3ud(hol) THEN u3m_bail(c3__exit)
  ELSE IF hol = A(c3__rlos) THEN lrsin_rlos(n_a, m_a, r_a, n_b, l_b, m_b, r_b)
  ELSE lrsin_llos(n_a, m_a, r_a, n_b, l_b, m_b, r_b)

\* the test of hol and the switch on it
lrsin_switch(hol, n_a, m_a, r_a, n_b, l_b, m_b, r_b) ==
  IF ~u3ud(hol) THEN u3m_bail(c3__exit)
  ELSE IF hol = A(c3__llos) THEN lrsin_llos(n_a, m_a, r_a, n_b, l_b, m_b, r_b)
  ELSE IF hol = A(c3__rlos) THEN lrsin_rlos(n_a, m_a, r_a, n_b, l_b, m_b, r_b)
  ELSE u3m_bail(c3__exit)

\* a missing field read as the empty atom
OrNull(x) == IF x = None THEN A(0) ELSE x

u3qdu_lrsin_guess(a) ==
  IF ~u3r_qual(a) THEN u3m_bail(c3__exit)
  ELSE LET l_a == fetch(6, a)
           b   == fetch(7, l_a)
       IN  lrsin_switch(IF u3du(l_a) THEN u3h(l_a) ELSE A(c3__llos),
                        fetch(2, a), fetch(14, a), fetch(15, a),
                        OrNull(fetch(2, b)), OrNull(fetch(6, b)),
                        OrNull(fetch(14, b)), OrNull(fetch(15, b)))

u3qdu_lrsin_sizeLeak(a) ==
  IF ~u3r_qual(a) THEN u3m_bail(c3__exit)
  ELSE LET l_a == u3h(u3t(a))
       IN  IF ~u3du(l_a) THEN u3m_bail(c3__exit)
           ELSE IF ~u3r_cell(u3t(l_a)) THEN u3m_bail(c3__exit)
           ELSE LET b == u3t(u3t(l_a))
                IN  IF ~u3r_qual(b) THEN u3m_bail(c3__exit)
                    ELSE lrsin_switch(u3h(l_a),
                                      u3h(a), u3h(u3t(u3t(a))), u3t(u3t(u3t(a))),
                                      u3h(b), u3h(u3t(b)),
                                      u3h(u3t(l_a)), u3t(u3t(u3t(b))))

u3qdu_lrsin(a) ==
  IF ~u3r_qual(a) THEN u3m_bail(c3__exit)
  ELSE LET n_a == u3h(a)
           l_a == u3h(u3t(a))
           m_a == u3h(u3t(u3t(a)))
           r_a == u3t(u3t(u3t(a)))
       IN  IF ~u3du(l_a) THEN u3m_bail(c3__exit)
           ELSE IF ~u3r_cell(u3t(l_a)) THEN u3m_bail(c3__exit)
           ELSE LET b == u3t(u3t(l_a))
                IN  IF ~u3r_qual(b) THEN u3m_bail(c3__exit)
                    ELSE LET n_b == u3h(b)
                             l_b == u3h(u3t(b))
                             m_b == u3h(u3t(u3t(b)))
                             r_b == u3t(u3t(u3t(b)))
                             hol == u3h(l_a)
                         IN  lrsin_switch(hol, n_a, m_a, r_a, n_b, l_b, m_b, r_b)

(* ------------------------------ inputs -------------------------------- *)

Keys == {A(k) : k \in 1..MaxKey} \cup {C(A(1), A(2))}
Metas == {A(0), A(1)}
Sizes == {A(k) : k \in 0..MaxSize} \cup {C(A(1), A(1))}
GoodTags == {A(c3__llos), A(c3__rlos)}
BadTags == {A(0), A(c3__face), C(A(c3__llos), A(0)), C(A(c3__rlos), A(c3__rlos))}

\* a subtree as the tree stores it: the empty atom, or [tag size n l m r]
Leaf(tag, k) == T3(tag, A(1), T4(A(k), A(0), A(k), A(0)))
Subtrees == {A(0), Leaf(A(c3__llos), 3), Leaf(A(c3__rlos), 4)}

Quad(n_a, tag, size, b, m_a, r_a) == T4(n_a, T3(tag, size, b), m_a, r_a)

WellFormedInputs ==
  {Quad(n_a, tag, size, T4(n_b, l_b, m_b, r_b), m_a, r_a) :
     n_a \in Keys, n_b \in Keys, tag \in GoodTags, size \in Sizes,
     l_b \in Subtrees, r_b \in Subtrees, r_a \in Subtrees,
     m_a \in {A(1)}, m_b \in Metas}

BadTagInputs ==
  {Quad(n_a, tag, size, T4(A(2), l_b, A(1), A(0)), A(0), r_a) :
     n_a \in Keys, tag \in BadTags, size \in Sizes,
     l_b \in Subtrees, r_a \in Subtrees}

\* what stands where the inner node [n_b l_b m_b r_b] should
BadBodies == {A(0), A(7), C(A(2), A(0)), T3(A(2), A(0), A(1))}

MalformedInputs ==
     {A(0), A(c3__llos), C(A(1), A(0)), T3(A(1), Leaf(A(c3__llos), 3), A(0))}
  \cup {T4(n_a, l_a, A(0), r_a) :
          n_a \in Keys, l_a \in {A(0), A(c3__llos), A(c3__rlos)}, r_a \in Subtrees}
  \cup {T4(n_a, C(tag, A(1)), A(0), r_a) :
          n_a \in Keys, tag \in GoodTags \cup BadTags, r_a \in Subtrees}
  \cup {Quad(n_a, tag, size, b, A(0), r_a) :
          n_a \in Keys, tag \in GoodTags \cup BadTags, size \in Sizes,
          b \in BadBodies, r_a \in {A(0)}}

LrsinInputs == WellFormedInputs \cup BadTagInputs \cup MalformedInputs

Cogs == {A(1), A(c3__void), C(A(1), A(2)), C(A(c3__void), A(0))}
Tips == {A(c3__void), A(0), A(c3__face), C(A(c3__void), A(0)),
         T3(A(c3__face), A(1), A(c3__void)), C(A(0), A(c3__void))}

\* a core [battery sample context]
Core(s) == T3(A(0), s, A(0))

BrokenCores == {A(0), A(c3__void), C(A(0), A(0)), C(A(0), A(c3__void)),
                C(C(A(1), A(c3__void)), A(0))}

LrsinCores == {Core(a) : a \in LrsinInputs} \cup BrokenCores
FaceCores ==
  {Core(C(cog, tip)) : cog \in Cogs, tip \in Tips}
    \cup {Core(A(0)), Core(A(c3__void))} \cup BrokenCores

(* --------------------------- the calls -------------------------------- *)

Init ==
  /\ pc = "Lookup"
  /\ jet = "none"
  /\ via = "none"
  /\ cor = None
  /\ sam = <<>>
  /\ ret = None
  /\ bail = 0
  /\ kept = <<>>
  /\ made = <<>>
  /\ path = <<>>

\* the registered driver is entered with the core
Dispatch(j, c) ==
  /\ pc = "Lookup"
  /\ pc' = "ArgumentExtraction"
  /\ jet' = j
  /\ via' = "driver"
  /\ cor' = c
  /\ path' = Append(path, "Lookup")
  /\ UNCHANGED <<sam, ret, bail, kept, made>>

\* another jet calls the native function itself
Direct(j, args) ==
  /\ pc = "Lookup"
  /\ pc' = "NativeExecute"
  /\ jet' = j
  /\ via' = "direct"
  /\ sam' = args
  /\ path' = Append(path, "Lookup")
  /\ UNCHANGED <<cor, ret, bail, kept, made>>

Leave(mote) ==
  /\ pc' = "Bailout"
  /\ bail' = mote
  /\ ret' = None
  /\ UNCHANGED <<jet, via, cor, sam, kept, made>>

u3wdu_lrsin_mean ==
  /\ pc = "ArgumentExtraction"
  /\ jet = "lrsin"
  /\ path' = Append(path, "ArgumentExtraction")
  /\ IF ~u3r_mean(cor, <<u3x_sam>>)
     THEN Leave(c3__exit)
     ELSE /\ sam' = <<fetch(u3x_sam, cor)>>
          /\ pc' = "ShapeValidation"
          /\ UNCHANGED <<jet, via, cor, ret, bail, kept, made>>

u3wdu_lrsin_du_skipped ==
  /\ pc = "ShapeValidation"
  /\ jet = "lrsin"
  /\ path' = Append(path, "ShapeValidation")
  /\ pc' = "NativeExecute"
  /\ UNCHANGED <<jet, via, cor, sam, ret, bail, kept, made>>

u3wdu_lrsin_du ==
  /\ pc = "ShapeValidation"
  /\ jet = "lrsin"
  /\ path' = Append(path, "ShapeValidation")
  /\ IF ~u3du(sam[1])
     THEN Leave(c3__exit)
     ELSE /\ pc' = "NativeExecute"
          /\ UNCHANGED <<jet, via, cor, sam, ret, bail, kept, made>>

\* u2_cr_mean takes both halves of the sample or fails: extraction and the
\* check of the sample's shape are the one call
j2_mb_face_mean ==
  /\ pc = "ArgumentExtraction"
  /\ jet = "face"
  /\ path' = Append(path, "ArgumentExtraction")
  /\ IF ~u3r_mean(cor, <<u2_cv_sam_2, u2_cv_sam_3>>)
     THEN Leave(c3__fail)
     ELSE /\ sam' = <<fetch(u2_cv_sam_2, cor), fetch(u2_cv_sam_3, cor)>>
          /\ pc' = "NativeExecute"
          /\ UNCHANGED <<jet, via, cor, ret, bail, kept, made>>

NativeExecute ==
  /\ pc = "NativeExecute"
  /\ LET r == IF jet = "lrsin" THEN u3qdu_lrsin(sam[1])
                               ELSE j2_mby_face(sam[1], sam[2])
     IN  /\ ret' = r.ret
         /\ bail' = r.bail
         /\ kept' = r.kept
         /\ made' = r.made
         /\ pc' = IF r.bail = 0 THEN "Done" ELSE "Bailout"
  /\ path' = Append(path, "NativeExecute")
  /\ UNCHANGED <<jet, via, cor, sam>>

Next ==
  \/ \E c \in LrsinCores : Dispatch("lrsin", c)
  \/ \E c \in FaceCores : Dispatch("face", c)
  \/ \E a \in LrsinInputs : Direct("lrsin", <<a>>)
  \/ \E cog \in Cogs, tip \in Tips : Direct("face", <<cog, tip>>)
  \/ u3wdu_lrsin_mean
  \/ u3wdu_lrsin_du
  \/ j2_mb_face_mean
  \/ NativeExecute

Spec == Init /\ [][Next]_vars

(* ------------------- reading a call and its outcome -------------------- *)

Final == pc \in {"Done", "Bailout"}
Ran == path # <<>> /\ path[Len(path)] = "NativeExecute"
RanLrsin == Ran /\ jet = "lrsin"
RanFace == Ran /\ jet = "face"

\* the fields of an input a = [n_a [tag size [n_b l_b m_b r_b]] m_a r_a], by axis
N_a(a) == fetch(2, a)
L_a(a) == fetch(6, a)
M_a(a) == fetch(14, a)
R_a(a) == fetch(15, a)
TagOf(a) == fetch(12, a)
SizeOf(a) == fetch(26, a)
BodyOf(a) == fetch(27, a)
N_b(a) == fetch(2, BodyOf(a))
L_b(a) == fetch(6, BodyOf(a))
M_b(a) == fetch(14, BodyOf(a))
R_b(a) == fetch(15, BodyOf(a))

IsQuad(x) == fetch(15, x) # None
ChildShape(a) == IsQuad(a) /\ TagOf(a) # None /\ IsQuad(BodyOf(a))
WellFormed(a) == ChildShape(a) /\ TagOf(a) \in GoodTags

\* a built node <<"llos", n, l, m, r>>
IsNode(t) == Len(t) = 5
NodeN(t) == t[2]
NodeL(t) == t[3]
NodeM(t) == t[4]
NodeR(t) == t[5]

\* keys in order: left subtree, key, right subtree.  A subtree is the empty
\* atom, a stored [tag size n l m r] or a built node.
RECURSIVE InOrder(_)
InOrder(t) ==
  IF IsNode(t) THEN InOrder(NodeL(t)) \o <<NodeN(t)>> \o InOrder(NodeR(t))
  ELSE IF u3du(t) /\ IsQuad(fetch(7, t))
       THEN InOrder(fetch(6, fetch(7, t))) \o <<fetch(2, fetch(7, t))>>
              \o InOrder(fetch(15, fetch(7, t)))
       ELSE <<>>

\* the input is the bare node [n_a l_a m_a r_a]
InOrderOfInput(a) == InOrder(L_a(a)) \o <<N_a(a)>> \o InOrder(R_a(a))

Count(x, s) == Cardinality({i \in 1..Len(s) : s[i] = x})
SameBag(s, t) ==
  /\ Len(s) = Len(t)
  /\ \A i \in 1..Len(s) : Count(s[i], s) = Count(s[i], t)

KeptNames == [i \in 1..Len(kept) |-> kept[i].name]
KeptVals == [i \in 1..Len(kept) |-> kept[i].val]

(* ------------------------------- claims ------------------------------- *)

\* C1: face(cog, tip) with tip the void marker returns the void marker, builds
\* no cell and takes no reference to cog or tip, whatever cog is.
C1_VoidPropagation ==
  (RanFace /\ sam[2] = A(c3__void)) =>
     /\ pc = "Done"
     /\ ret = A(c3__void)
     /\ made = <<>>
     /\ kept = <<>>

C1_Witness ==
  /\ RanFace /\ sam[2] = A(c3__void) /\ u3du(sam[1])
  /\ ret = A(c3__void)

\* C9: face(cog, tip) with tip not the void marker returns [%face cog tip]
\* holding the cog and tip given; so it returns void iff tip is void.
C9_FaceConstruction ==
  RanFace =>
     /\ pc = "Done"
     /\ (sam[2] # A(c3__void) =>
           /\ u3du(ret) /\ u3du(u3t(ret))
           /\ fetch(2, ret) = A(c3__face)
           /\ fetch(6, ret) = sam[1]
           /\ fetch(7, ret) = sam[2])
     /\ (ret = A(c3__void) <=> sam[2] = A(c3__void))

C9_Witness ==
  /\ RanFace /\ via = "driver"
  /\ sam[1] # sam[2]
  /\ sam[2] = C(A(c3__void), A(0))
  /\ ret = T3(A(c3__face), sam[1], sam[2])

\* the input with the keys n_a and n_b exchanged
SwapKeys(a) ==
  Quad(N_b(a), TagOf(a), SizeOf(a),
       T4(N_a(a), L_b(a), M_b(a), R_b(a)), M_a(a), R_a(a))

C4_NothingLostOrMade ==
  (RanLrsin /\ WellFormed(sam[1])) =>
     /\ pc = "Done"
     /\ Len(made) = 2
     /\ IsNode(made[1]) /\ IsNode(made[2])
     /\ ret = made[2]
     /\ SameBag(<<NodeN(made[1]), NodeN(made[2])>>,
                <<N_a(sam[1]), N_b(sam[1])>>)
     /\ SameBag(<<NodeM(made[1]), NodeM(made[2])>>,
                <<M_a(sam[1]), M_b(sam[1])>>)
     /\ SameBag(<<NodeL(made[1]), NodeR(made[1]), NodeL(made[2]), NodeR(made[2])>>,
                <<L_b(sam[1]), R_b(sam[1]), R_a(sam[1]), made[1]>>)

C4_Witness ==
  /\ RanLrsin /\ pc = "Done"
  /\ N_a(sam[1]) # N_b(sam[1])
  /\ M_a(sam[1]) # M_b(sam[1])
  /\ L_b(sam[1]) # R_b(sam[1]) /\ R_b(sam[1]) # R_a(sam[1])
  /\ L_b(sam[1]) # R_a(sam[1])
  /\ Len(made) = 2

C6_TagDispatch ==
  (RanLrsin /\ ChildShape(sam[1])) =>
     LET a == sam[1]
         byLlos == u3qdu_llos(N_b(a), L_b(a), M_b(a),
                              u3qdu_llos(N_a(a), R_b(a), M_a(a), R_a(a)))
         byRlos == u3qdu_llos(N_a(a), L_b(a), M_b(a),
                              u3qdu_llos(N_b(a), R_b(a), M_a(a), R_a(a)))
     IN  /\ (fetch(2, fetch(6, a)) = A(c3__llos) => pc = "Done" /\ ret = byLlos)
         /\ (fetch(2, fetch(6, a)) = A(c3__rlos) => pc = "Done" /\ ret = byRlos)
         /\ (fetch(2, fetch(6, a)) \notin GoodTags =>
               /\ pc = "Bailout" /\ bail = c3__exit
               /\ ret = None /\ made = <<>>)

C6_Witness ==
  /\ RanLrsin /\ ChildShape(sam[1])
  /\ u3du(TagOf(sam[1]))
  /\ u3h(TagOf(sam[1])) = A(c3__llos)
  /\ pc = "Bailout" /\ ret = None

\* C7: an input that is no 4-tuple, or whose left child is an atom, or whose
\* left child's body is not [size [n l m r]], ends the call with a bail and no
\* noun, whatever the tag and the other fields are.
C7_ChildShapeRequired ==
  (RanLrsin /\ ~ChildShape(sam[1])) =>
     /\ pc = "Bailout"
     /\ bail = c3__exit
     /\ ret = None
     /\ made = <<>>

C7_Witness ==
  /\ RanLrsin /\ IsQuad(sam[1])
  /\ u3du(L_a(sam[1])) /\ TagOf(sam[1]) \in GoodTags
  /\ u3du(BodyOf(sam[1])) /\ ~IsQuad(BodyOf(sam[1]))
  /\ pc = "Bailout" /\ ret = None

\* the noun the C variable `name` holds in a call on a (lrsin) or on cog, tip (face)
Held(name) ==
  IF jet = "face" THEN (IF name = "cog" THEN sam[1] ELSE sam[2])
  ELSE CASE name = "n_a" -> N_a(sam[1])
         [] name = "m_a" -> M_a(sam[1])
         [] name = "r_a" -> R_a(sam[1])
         [] name = "n_b" -> N_b(sam[1])
         [] name = "l_b" -> L_b(sam[1])
         [] name = "m_b" -> M_b(sam[1])
         [] OTHER        -> R_b(sam[1])

\* the references the constructors of a successful call took over
Taken ==
  IF jet = "face" THEN <<fetch(6, ret), fetch(7, ret)>>
  ELSE <<NodeN(made[1]), NodeL(made[1]), NodeM(made[1]), NodeR(made[1]),
         NodeN(made[2]), NodeL(made[2]), NodeM(made[2]), NodeR(made[2])>>

\* C8: a successful call takes exactly one reference to each noun it hands to
\* a constructor (n_a, n_b, l_b, m_b, r_b, m_a, r_a; cog and tip), one for
\* each reference a constructor takes over; a call that fails, in the driver
\* or in the native function, has taken none.
C8_RetainDiscipline ==
  /\ pc # "Done" => kept = <<>>
  /\ (RanLrsin /\ pc = "Done") =>
        /\ SameBag(KeptNames, <<"n_a", "n_b", "l_b", "m_b", "r_b", "m_a", "r_a">>)
        /\ \A i \in 1..Len(kept) : kept[i].val = Held(kept[i].name)
        /\ SameBag(KeptVals \o <<made[1]>>, Taken)
  /\ (RanFace /\ pc = "Done" /\ sam[2] # A(c3__void)) =>
        /\ SameBag(KeptNames, <<"cog", "tip">>)
        /\ \A i \in 1..Len(kept) : kept[i].val = Held(kept[i].name)
        /\ SameBag(KeptVals, Taken)

C8_Witness ==
  /\ RanLrsin /\ pc = "Done"
  /\ TagOf(sam[1]) = A(c3__llos)
  /\ Len(kept) = 7
  /\ R_b(sam[1]) # L_b(sam[1])

C8_WitnessBail ==
  /\ RanLrsin /\ pc = "Bailout"
  /\ ChildShape(sam[1])
  /\ kept = <<>>

WithSize(a, s) ==
  Quad(N_a(a), TagOf(a), s, BodyOf(a), M_a(a), R_a(a))
WithTag(a, t) ==
  Quad(N_a(a), t, SizeOf(a), BodyOf(a), M_a(a), R_a(a))
OtherTag(t) == IF t = A(c3__llos) THEN A(c3__rlos) ELSE A(c3__llos)

\* C10: the result does not depend on the size stored in the left child; both
\* nodes of either case are built by the llos constructor, and the case of
\* one tag is the case of the other with n_a and n_b exchanged.
C10_SizeAndTagIndependence ==
  (RanLrsin /\ WellFormed(sam[1])) =>
     /\ pc = "Done"
     /\ \A s \in Sizes \cup {A(MaxSize + 1), Leaf(A(c3__rlos), 4)} :
          /\ u3qdu_lrsin(WithSize(sam[1], s)).ret = ret
          /\ u3qdu_lrsin(WithSize(sam[1], s)).made = made
     /\ \A i \in 1..Len(made) : made[i][1] = "llos"
     /\ u3qdu_lrsin(SwapKeys(WithTag(sam[1], OtherTag(TagOf(sam[1]))))).ret = ret

C10_Witness ==
  /\ RanLrsin /\ pc = "Done"
  /\ TagOf(sam[1]) = A(c3__rlos)
  /\ N_a(sam[1]) # N_b(sam[1])
  /\ SizeOf(sam[1]) # M_b(sam[1])
  /\ u3du(SizeOf(sam[1]))
  /\ Len(made) = 2

\* what each driver requires of its core: a sample, and the sample a cell
\* (for face, so that both halves of the sample are there)
HasSample(c) == u3du(c) /\ u3du(u3t(c))
ShapeOK(c) == HasSample(c) /\ u3du(u3h(u3t(c)))

\* C2: a driver runs the native function only after it extracted the sample
\* and the sample passed the check of its shape, and a core whose sample is
\* missing or is not a cell ends in a bail, never in a result.
C2_ShapeRejection ==
  via = "driver" =>
     /\ (pc \in {"NativeExecute", "Done"} \/ Ran) =>
           /\ ShapeOK(cor)
           /\ jet = "lrsin" =>
                /\ sam = <<u3h(u3t(cor))>>
                /\ SubSeq(path, 1, 3) = <<"Lookup", "ArgumentExtraction", "ShapeValidation">>
           /\ jet = "face" =>
                /\ sam = <<u3h(u3h(u3t(cor))), u3t(u3h(u3t(cor)))>>
                /\ SubSeq(path, 1, 2) = <<"Lookup", "ArgumentExtraction">>
     /\ ~ShapeOK(cor) =>
           /\ ret = None /\ made = <<>>
           /\ Final =>
                /\ pc = "Bailout"
                /\ bail = IF jet = "lrsin" THEN c3__exit ELSE c3__fail
     /\ (pc = "ShapeValidation") => HasSample(cor)

C2_Witness ==
  /\ via = "driver" /\ jet = "lrsin"
  /\ HasSample(cor) /\ ~ShapeOK(cor)
  /\ path = <<"Lookup", "ArgumentExtraction", "ShapeValidation">>
  /\ pc = "Bailout" /\ bail = c3__exit /\ ret = None

C2_WitnessFace ==
  /\ via = "driver" /\ jet = "face"
  /\ HasSample(cor) /\ ~ShapeOK(cor)
  /\ pc = "Bailout" /\ bail = c3__fail /\ ret = None

====
